---------------------------- MODULE Spec2Model ----------------------------
(***************************************************************************)
(* A model of sphinx_add_texinfo.py: the script that patches a Sphinx      *)
(* Makefile with texinfo/info targets and appends a texinfo_documents      *)
(* block to conf.py.                                                       *)
(*                                                                         *)
(* Representation.                                                         *)
(*   - A text (a Python str) is a sequence of atoms.  An atom is a piece   *)
(*     of text that the program never looks inside: either one of the      *)
(*     substrings the program searches for ("@echo", "latex", "build",     *)
(*     ...) or a chunk of other characters.  `w in l` is then membership   *)
(*     of the atom w in the text l, string concatenation is \o, and        *)
(*     str.format splices the argument in place of the placeholder atom.   *)
(*   - None is <<>> and a value v that may be None is <<v>> (Some).        *)
(*   - A path is the sequence of its components; os.path.join appends.     *)
(*   - A call that raises returns [exc |-> <exception>, val |-> <<>>].     *)
(***************************************************************************)
EXTENDS Naturals, Sequences, FiniteSets, TLC

VARIABLES
    dirs,                \* the directories that exist (os.path.isdir)
    mkfiles,             \* path -> text of each existing Makefile
    conffiles,           \* path -> each existing conf.py: [bindings, blocks]
    pc,                  \* the position of the run
    err,                 \* the exception that ended the run, "None" if none
    n_runs,              \* how many times the script has been started
    additional_params,   \* sphinx_add_texinfo's keyword arguments
    makefile_path, makefile_orig_lines, builddir, makefile_lines,
    conf_path, conf, params, conf_addition,   \* sphinx_add_texinfo's locals
    start_mkfiles, start_conffiles,  \* history: the files when the run began
    first_conffiles,     \* history: the conf.py files before the first run
    n_appended,          \* history: the runs that completed both writes
    call,                \* a direct call of one function: [fn, ...arguments]
    ret                  \* what that call returned

vars == <<dirs, mkfiles, conffiles, pc, err, n_runs, additional_params,
          makefile_path, makefile_orig_lines, builddir, makefile_lines,
          conf_path, conf, params, conf_addition,
          start_mkfiles, start_conffiles, first_conffiles, n_appended,
          call, ret>>

----------------------------------------------------------------------------
(* Bounds of the model *)

\* the longest Makefile, in lines, that the direct calls are given
MaxLines == 3
\* how many times the script is run against one project
MaxRuns == 2
\* the longest list of authors
MaxAuthors == 2
\* the most flags given on one command line
MaxFlags == 2

----------------------------------------------------------------------------
(* Text *)

None == <<>>
Some(v) == <<v>>
NL == "\n"

\* Atoms whose first (last) character is a word character of the regular
\* expressions (a letter, a digit or '_'): what \b looks at.
StartsWithWordChar ==
    {"build", "_build", "x", "latex", "to make LaTeX files,", "rm -rf ",
     "sphinx-", "all:", "texinfo:", "info:"}
EndsWithWordChar ==
    {"build", "_build", "x", "latex", "@echo"}

\* w in l
Contains(l, w) == \E i \in DOMAIN l : l[i] = w

\* re.search(r'\b' + w + r'\b', l), for a word w that is one atom
ReSearchWord(w, l) ==
    \E i \in DOMAIN l :
        /\ l[i] = w
        /\ i = 1 \/ l[i - 1] \notin EndsWithWordChar
        /\ i = Len(l) \/ l[i + 1] \notin StartsWithWordChar

RECURSIVE Concat(_)
\* ''.join(ss), which is also what fp.writelines(ss) puts in the file
Concat(ss) == IF ss = <<>> THEN <<>> ELSE Head(ss) \o Concat(Tail(ss))

RECURSIVE SplitLines(_, _)
SplitLines(text, cur) ==
    IF text = <<>> THEN (IF cur = <<>> THEN <<>> ELSE <<cur>>)
    ELSE IF Head(text) = NL
         THEN <<Append(cur, NL)>> \o SplitLines(Tail(text), <<>>)
         ELSE SplitLines(Tail(text), Append(cur, Head(text)))

\* fp.readlines(): the lines, each with its newline, the last maybe without
readlines(text) == SplitLines(text, <<>>)

----------------------------------------------------------------------------
(* Paths and the resolvers *)

join(a, b) == a \o b
dirname(p) == SubSeq(p, 1, Len(p) - 1)
\* os.path.relpath(p, start) for p below start, as a string
relpath(p, start) == p[Len(start) + 1]

\* os.path.isdir and os.path.isfile, each as the set of paths it holds of
isdir == dirs
isfile == DOMAIN mkfiles \cup DOMAIN conffiles

RECURSIVE one_of(_, _)
\* the first candidate the predicate holds of, None if there is none
one_of(candidates, predicate) ==
    IF candidates = <<>> THEN None
    ELSE IF Head(candidates) \in predicate THEN Some(Head(candidates))
    ELSE one_of(Tail(candidates), predicate)

find_sphinx_dir == one_of(<< <<"doc">>, <<"docs">> >>, isdir)

\* os.path.join(None, ...) raises
find_sphinx_makefile ==
    LET doc == find_sphinx_dir
    IN  IF doc = None THEN [exc |-> "AttributeError:join(None)", val |-> None]
        ELSE [exc |-> "None",
              val |-> one_of(<< join(doc[1], <<"Makefile">>) >>,
                             isfile)]

find_sphinx_conf ==
    LET doc == find_sphinx_dir
    IN  IF doc = None THEN [exc |-> "AttributeError:join(None)", val |-> None]
        ELSE [exc |-> "None",
              val |-> one_of(<< join(doc[1], <<"conf.py">>),
                                join(doc[1], <<"source", "conf.py">>) >>,
                             isfile)]

----------------------------------------------------------------------------
(* The Makefile *)

MAKEFILE_HELP_LINES ==
    <<"\t", "@echo", " \"  texinfo     to make Texinfo files\"", NL,
      "\t", "@echo",
      " \"  info        to make Texinfo files and run them through makeinfo\"",
      NL>>

MAKEFILE_TARGETS_TEMPLATE ==
    <<NL,
      "texinfo:", NL,
      "\tmkdir -p ", "{builddir}", "/texinfo", NL,
      "\t$(SPHINXBUILD) -b texinfo $(ALLSPHINXOPTS) ", "{builddir}",
          "/texinfo", NL,
      "\t", "@echo", NL,
      "\t", "@echo", " \"Build finished. The Texinfo files are in ",
          "{builddir}", "/texinfo.\"", NL,
      "\t", "@echo",
          " \"Run \\`make' in that directory to run these through makeinfo\" \\",
          NL,
      "\t      \"(use \\`make info' here to do that automatically).\"", NL,
      NL,
      "info:", NL,
      "\tmkdir -p ", "{builddir}", "/texinfo", NL,
      "\t$(SPHINXBUILD) -b texinfo $(ALLSPHINXOPTS) ", "{builddir}",
          "/texinfo", NL,
      "\t", "@echo", " \"Running Texinfo files through makeinfo...\"", NL,
      "\tmake -C ", "{builddir}", "/texinfo info", NL,
      "\t", "@echo", " \"makeinfo finished; the Info files are in ",
          "{builddir}", "/texinfo.\"", NL>>

\* MAKEFILE_TARGETS_TEMPLATE.format(builddir=b)
format_targets(b) ==
    [i \in DOMAIN MAKEFILE_TARGETS_TEMPLATE |->
        IF MAKEFILE_TARGETS_TEMPLATE[i] = "{builddir}" THEN b
        ELSE MAKEFILE_TARGETS_TEMPLATE[i]]

\* the condition of line 110
is_help_marker(l) ==
    \A w \in {"@echo", "latex", "to make LaTeX files,"} : Contains(l, w)

RECURSIVE yield_lines_help_before(_)
\* yield_lines with the help block yielded before the marker line
yield_lines_help_before(lines) ==
    IF lines = <<>> THEN <<>>
    ELSE (IF is_help_marker(Head(lines))
          THEN <<MAKEFILE_HELP_LINES, Head(lines)>>
          ELSE <<Head(lines)>>) \o yield_lines_help_before(Tail(lines))

RECURSIVE yield_lines(_)
\* what the loop of lines 108-112 yields
yield_lines(lines) ==
    IF lines = <<>> THEN <<>>
    ELSE (IF is_help_marker(Head(lines))
          THEN <<Head(lines), MAKEFILE_HELP_LINES>>
          ELSE <<Head(lines)>>) \o yield_lines(Tail(lines))

RECURSIVE count_help_lines(_)
\* n_help_lines when the loop ends
count_help_lines(lines) ==
    IF lines = <<>> THEN 0
    ELSE (IF is_help_marker(Head(lines)) THEN 1 ELSE 0)
         + count_help_lines(Tail(lines))

\* list(modify_makefile_lines(lines, builddir)): the assert runs when the
\* generator is exhausted, so a failing assert leaves no list
modify_makefile_lines(lines, b) ==
    IF count_help_lines(lines) = 1
    THEN [exc |-> "None",
          val |-> Append(yield_lines(lines), format_targets(b))]
    ELSE [exc |-> "AssertionError:n_help_lines", val |-> <<>>]

RECURSIVE scan_build_words_build_first(_)
\* scan_build_words with the two tests of a line in the other order
scan_build_words_build_first(lines) ==
    IF lines = <<>> THEN None
    ELSE IF ReSearchWord("build", Head(lines)) THEN Some("build")
    ELSE IF ReSearchWord("_build", Head(lines)) THEN Some("_build")
    ELSE scan_build_words_build_first(Tail(lines))

RECURSIVE scan_build_words(_)
\* the loop of lines 128-132: Some(word) where it returns, None if it ends
scan_build_words(lines) ==
    IF lines = <<>> THEN None
    ELSE IF ReSearchWord("_build", Head(lines)) THEN Some("_build")
    ELSE IF ReSearchWord("build", Head(lines)) THEN Some("build")
    ELSE scan_build_words(Tail(lines))

get_makefile_builddir(path, lines) ==
    IF \E i \in DOMAIN lines : Contains(lines[i], "$(BUILDDIR)")
    THEN [exc |-> "None", val |-> "$(BUILDDIR)"]
    ELSE IF scan_build_words(lines) # None
    THEN [exc |-> "None", val |-> scan_build_words(lines)[1]]
    ELSE LET doc == dirname(path)
             build_path == one_of(<< join(doc, <<"build">>),
                                     join(doc, <<"_build">>) >>, isdir)
         IN  IF build_path = None
             THEN [exc |-> "ValueError:relpath(None)", val |-> <<>>]
             ELSE [exc |-> "None", val |-> relpath(build_path[1], doc)]

----------------------------------------------------------------------------
(* The configuration block *)

CONF_PY_TEXINFO_DOCUMENTS_TEMPLATE ==
    <<"\ntexinfo_documents = [\n  (", "{startdocname}", ", '",
      "{targetname}", "', '", "{title}", "',\n   '",
      "{author}", "',\n   '",
      "{dir_entry}", "',\n   '",
      "{description}", "',\n   '",
      "{category}", "',\n   ",
      "{toctree_only}", "),\n]\n">>

Placeholders ==
    {"{startdocname}", "{targetname}", "{title}", "{author}", "{dir_entry}",
     "{description}", "{category}", "{toctree_only}"}

RECURSIVE format_from(_, _)
format_from(i, fields) ==
    IF i > Len(CONF_PY_TEXINFO_DOCUMENTS_TEMPLATE) THEN <<>>
    ELSE LET a == CONF_PY_TEXINFO_DOCUMENTS_TEMPLATE[i]
         IN  (IF a \in Placeholders THEN fields[a] ELSE <<a>>)
             \o format_from(i + 1, fields)

\* CONF_PY_TEXINFO_DOCUMENTS_TEMPLATE.format(**fields): fields maps each
\* placeholder to the text that replaces it
format_conf(fields) == format_from(1, fields)

\* str(v) as format applies it: the text itself, "None" for None
str(v) == IF v = None THEN <<"None">> ELSE v[1]

\* str(int(v)) for v in 0, 1 (True is 1)
str_int(v) == IF v[1] = 0 THEN <<"0">> ELSE <<"1">>

\* c.lower() for one character
lower_char(c) ==
    CASE c = "F" -> "f"
      [] c = "B" -> "b"
      [] OTHER -> c

\* s.lower()
lower(s) == [i \in DOMAIN s |-> lower_char(s[i])]

RECURSIVE str_join(_, _)
\* sep.join(ss)
str_join(sep, ss) ==
    IF ss = <<>> THEN <<>>
    ELSE IF Len(ss) = 1 THEN ss[1]
    ELSE ss[1] \o <<sep>> \o str_join(sep, Tail(ss))

\* repr(s) of a str without quotes in it
repr(s) == <<"'">> \o s \o <<"'">>

\* bool(v): None, '' and [] are false
truthy(v) == v # None /\ v[1] # <<>>

\* the parameters of conf_py_texinfo_documents and their defaults (line 155)
GeneratorRequired == {"project_name", "startdocname"}
GeneratorDefaults ==
    [targetname |-> None, title |-> None, authors |-> Some(<<>>),
     dir_entry |-> None, description |-> None,
     category |-> Some(<<"Programming">>), toctree_only |-> Some(1)]
GeneratorParams == GeneratorRequired \cup DOMAIN GeneratorDefaults

\* the keyword arguments kw bound to the parameters
bind_generator(kw) ==
    [k \in GeneratorParams |->
        IF k \in DOMAIN kw THEN kw[k] ELSE GeneratorDefaults[k]]

\* generator_fields with the description defaulted from the title argument
\* as passed, not as defaulted
generator_fields_desc_from_arg(a) ==
    LET project_name == a.project_name[1]
        targetname == IF truthy(a.targetname) THEN a.targetname
                      ELSE Some(lower(project_name))
        title == IF truthy(a.title) THEN a.title
                 ELSE Some(project_name \o <<" Documentation">>)
        description == IF truthy(a.description) THEN a.description
                       ELSE IF truthy(a.title) THEN a.title
                       ELSE Some(project_name)
        dir_entry == IF truthy(a.dir_entry) THEN a.dir_entry
                     ELSE Some(project_name)
        author == IF truthy(a.authors) THEN str_join("@*", a.authors[1])
                  ELSE project_name \o <<" Development Team">>
    IN  [startdocname |-> a.startdocname, targetname |-> targetname,
         title |-> title, author |-> Some(author), dir_entry |-> dir_entry,
         description |-> description, category |-> a.category,
         toctree_only |-> a.toctree_only]

\* lines 164-171: the eight fields as they are handed to format
generator_fields(a) ==
    LET project_name == a.project_name[1]
        targetname == IF truthy(a.targetname) THEN a.targetname
                      ELSE Some(lower(project_name))
        title == IF truthy(a.title) THEN a.title
                 ELSE Some(project_name \o <<" Documentation">>)
        description == IF truthy(a.description) THEN a.description ELSE title
        dir_entry == IF truthy(a.dir_entry) THEN a.dir_entry
                     ELSE Some(project_name)
        author == IF truthy(a.authors) THEN str_join("@*", a.authors[1])
                  ELSE project_name \o <<" Development Team">>
    IN  [startdocname |-> a.startdocname, targetname |-> targetname,
         title |-> title, author |-> Some(author), dir_entry |-> dir_entry,
         description |-> description, category |-> a.category,
         toctree_only |-> a.toctree_only]

\* lines 172-180: the fields as the texts that replace the placeholders
field_texts(f) ==
    [p \in Placeholders |->
        CASE p = "{startdocname}" -> str(f.startdocname)
          [] p = "{targetname}" -> str(f.targetname)
          [] p = "{title}" -> str(f.title)
          [] p = "{author}" -> str(f.author)
          [] p = "{dir_entry}" -> str(f.dir_entry)
          [] p = "{description}" -> str(f.description)
          [] p = "{category}" -> str(f.category)
          [] p = "{toctree_only}" -> str_int(f.toctree_only)]

\* conf_py_texinfo_documents(**kw)
conf_py_texinfo_documents(kw) ==
    IF ~(DOMAIN kw \subseteq GeneratorParams)
    THEN [exc |-> "TypeError:unexpected keyword argument", val |-> <<>>]
    ELSE IF ~(GeneratorRequired \subseteq DOMAIN kw)
    THEN [exc |-> "TypeError:missing argument", val |-> <<>>]
    ELSE [exc |-> "None",
          val |-> format_conf(field_texts(generator_fields(bind_generator(kw))))]

----------------------------------------------------------------------------
(* Reading conf.py *)

\* the expression a block binds as the start document: the text between
\* the opening parenthesis and the first ", '"
block_startdoc(block) ==
    LET k == CHOOSE i \in DOMAIN block :
                 /\ block[i] = ", '"
                 /\ \A j \in 1..(i - 1) : block[j] # ", '"
    IN  SubSeq(block, 2, k - 1)

\* whether Python evaluates the expression e in the namespace ns: a quoted
\* string always, a bare name only when ns binds it
evaluates(e, ns) ==
    \/ Len(e) >= 2 /\ e[1] = "'" /\ e[Len(e)] = "'"
    \/ Len(e) = 1 /\ e[1] \in DOMAIN ns

RECURSIVE exec_blocks(_, _)
\* executing the appended blocks, in order, in ns
exec_blocks(ns, blocks) ==
    IF blocks = <<>> THEN [exc |-> "None", val |-> ns]
    ELSE IF ~evaluates(block_startdoc(Head(blocks)), ns)
    THEN [exc |-> "NameError:startdocname", val |-> <<>>]
    ELSE exec_blocks(("texinfo_documents" :> Head(blocks)) @@ ns,
                     Tail(blocks))

\* read_sphinx_conf(confpath): the script's own bindings, then the blocks
\* appended to it; execfile(None, ns) raises
read_sphinx_conf(confpath) ==
    IF confpath = None
    THEN [exc |-> "TypeError:execfile(None)", val |-> <<>>]
    ELSE LET script == conffiles[confpath[1]]
         IN  exec_blocks(script.bindings @@ ("__file__" :> confpath[1]),
                         script.blocks)

\* params_for_texinfo_documents taking the value of master_doc, quoted,
\* where the code takes the setting's name
params_for_texinfo_documents_value(ns) ==
    IF "project" \notin DOMAIN ns
    THEN [exc |-> "KeyError:project", val |-> <<>>]
    ELSE IF "master_doc" \in DOMAIN ns
    THEN [exc |-> "None",
          val |-> [project_name |-> Some(ns["project"]),
                   startdocname |-> Some(repr(ns["master_doc"]))]]
    ELSE IF "latex_documents" \notin DOMAIN ns
    THEN [exc |-> "KeyError:latex_documents", val |-> <<>>]
    ELSE LET latex_documents == ns["latex_documents"]
         IN  [exc |-> "None",
              val |-> [project_name |-> Some(ns["project"]),
                       startdocname |->
                           IF Len(latex_documents) = 0
                              \/ Len(latex_documents[1]) = 0
                           THEN Some(<<"index">>)
                           ELSE Some(repr(latex_documents[1][1]))]]

params_for_texinfo_documents(ns) ==
    IF "project" \notin DOMAIN ns
    THEN [exc |-> "KeyError:project", val |-> <<>>]
    ELSE IF "master_doc" \in DOMAIN ns
    THEN [exc |-> "None",
          val |-> [project_name |-> Some(ns["project"]),
                   startdocname |-> Some(<<"master_doc">>)]]
    ELSE IF "latex_documents" \notin DOMAIN ns
    THEN [exc |-> "KeyError:latex_documents", val |-> <<>>]
    ELSE LET latex_documents == ns["latex_documents"]
         IN  [exc |-> "None",
              val |-> [project_name |-> Some(ns["project"]),
                       startdocname |->
                           IF Len(latex_documents) = 0
                              \/ Len(latex_documents[1]) = 0
                           THEN Some(<<"index">>)
                           ELSE Some(repr(latex_documents[1][1]))]]

\* filter_dict keeping the values that are true, where the code keeps the
\* values that are not None
filter_dict_truthy(d) ==
    [k \in {x \in DOMAIN d :
                /\ d[x] # None
                /\ IF x = "toctree_only" THEN d[x][1] # 0
                   ELSE d[x][1] # <<>>}
        |-> d[k]]

\* filter_dict(None, d)
filter_dict(d) == [k \in {x \in DOMAIN d : d[x] # None} |-> d[k]]

\* params.update(other)
update(p, other) == other @@ p

----------------------------------------------------------------------------
(* Inputs *)

SeqsUpTo(S, n) == UNION {[1..k -> S] : k \in 0..n}

\* Lines of a Makefile
LMarker == <<"\t", "@echo", " ", "latex", " ", "to make LaTeX files,", NL>>
LHalf   == <<"\t", "@echo", " ", "latex", NL>>
LVar    == <<"rm -rf ", "$(BUILDDIR)", "/*", NL>>
LHidden == <<"rm -rf ", "_build", "/*", NL>>
LBuild  == <<"sphinx-", "build", NL>>
LBoth   == <<"build", " ", "_build", NL>>
LGlued  == <<"x", "build", " ", "x", "_build", NL>>
LPlain  == <<"all:", NL>>

LineCatalog == {LMarker, LHalf, LVar, LHidden, LBuild, LBoth, LGlued, LPlain}

\* l without its newline: the last line of a file that does not end in one
chomp(l) == SubSeq(l, 1, Len(l) - 1)

\* what readlines can return: whole lines, the last one maybe unterminated
LineLists ==
    LET whole == SeqsUpTo(LineCatalog, MaxLines)
    IN  whole \cup {[ls EXCEPT ![Len(ls)] = chomp(ls[Len(ls)])] :
                        ls \in whole \ {<<>>}}

BuilddirTokens == {"$(BUILDDIR)", "_build", "build", "out"}

\* Directory layouts beside doc/Makefile
BuildDirLayouts ==
    {{<<"doc">>},
     {<<"doc">>, <<"doc", "build">>},
     {<<"doc">>, <<"doc", "_build">>},
     {<<"doc">>, <<"doc", "build">>, <<"doc", "_build">>}}

Foo == <<"F", "o", "o">>
Bar == <<"b", "a", "r", "B">>
Projects == {Foo, Bar}

\* Bindings of a conf.py
LatexEntries == {<<>>, <<<<"i", "n", "t", "r", "o">>, <<"x.tex">>>>,
                 <<<<"i", "n", "d", "e", "x">>, <<"y.tex">>>>}
LatexDocuments == SeqsUpTo(LatexEntries, 2)
MasterDocs == {<<"c", "o", "n", "t", "e", "n", "t", "s">>}

\* a function from the keys whose choice is Some(v) to v
Chosen(choice) ==
    [k \in {x \in DOMAIN choice : choice[x] # None} |-> choice[k][1]]

ConfBindings ==
    {Chosen([project |-> p, master_doc |-> m, latex_documents |-> l]) :
        p \in {None} \cup {Some(x) : x \in Projects},
        m \in {None} \cup {Some(x) : x \in MasterDocs},
        l \in {None} \cup {Some(x) : x \in LatexDocuments}}

Authors == {<<"Alice">>, <<"Bob">>}
AuthorLists == SeqsUpTo(Authors, MaxAuthors)

OneOrEmpty(t) == {None, Some(Some(<<>>)), Some(Some(t))}
OneOrAbsent(t) == {None, Some(Some(t))}

\* Keyword arguments of a direct call of conf_py_texinfo_documents
GeneratorKeywords ==
    {Chosen([project_name |-> Some(Some(p)), startdocname |-> Some(Some(s)),
             targetname |-> tn, title |-> ti, authors |-> au,
             dir_entry |-> de, description |-> ds, category |-> ca,
             toctree_only |-> tt]) :
        p \in Projects,
        s \in {<<"master_doc">>, repr(<<"i", "n", "d", "e", "x">>)},
        tn \in OneOrAbsent(<<"tgt">>),
        ti \in OneOrEmpty(<<"A Title">>),
        au \in {None} \cup {Some(Some(a)) : a \in AuthorLists},
        de \in OneOrAbsent(<<"Dir">>),
        ds \in OneOrEmpty(<<"About">>),
        ca \in OneOrEmpty(<<"Misc">>),
        tt \in {None, Some(Some(0)), Some(Some(1))}}

----------------------------------------------------------------------------
(* Direct calls of the functions *)

Idle ==
    /\ pc = "call" /\ err = "None" /\ n_runs = 0 /\ n_appended = 0
    /\ additional_params = <<>>
    /\ makefile_path = None /\ makefile_orig_lines = <<>>
    /\ builddir = <<>> /\ makefile_lines = <<>>
    /\ conf_path = None /\ conf = <<>> /\ params = <<>>
    /\ conf_addition = <<>>
    /\ mkfiles = <<>> /\ conffiles = <<>>
    /\ start_mkfiles = <<>> /\ start_conffiles = <<>>
    /\ first_conffiles = <<>>
    /\ ret = <<>>

InitUnit ==
    /\ Idle
    /\ \/ /\ dirs = {}
          /\ call \in {[fn |-> "modify_makefile_lines", lines |-> ls,
                        builddir |-> b] :
                          ls \in LineLists, b \in BuilddirTokens}
       \/ /\ dirs \in BuildDirLayouts
          /\ call \in {[fn |-> "get_makefile_builddir",
                        path |-> <<"doc", "Makefile">>, lines |-> ls] :
                          ls \in LineLists}
       \/ /\ dirs = {}
          /\ call \in {[fn |-> "params_for_texinfo_documents", conf |-> c] :
                          c \in ConfBindings}
       \/ /\ dirs = {}
          /\ call \in {[fn |-> "conf_py_texinfo_documents", kw |-> k] :
                          k \in GeneratorKeywords}

Return(v) ==
    /\ pc = "call"
    /\ pc' = "returned"
    /\ ret' = v
    /\ UNCHANGED <<dirs, mkfiles, conffiles, err, n_runs, additional_params,
                   makefile_path, makefile_orig_lines, builddir,
                   makefile_lines, conf_path, conf, params, conf_addition,
                   start_mkfiles, start_conffiles, first_conffiles,
                   n_appended, call>>

CallModify ==
    /\ call.fn = "modify_makefile_lines"
    /\ Return(modify_makefile_lines(call.lines, call.builddir))

CallBuilddir ==
    /\ call.fn = "get_makefile_builddir"
    /\ Return(get_makefile_builddir(call.path, call.lines))

CallParams ==
    /\ call.fn = "params_for_texinfo_documents"
    /\ Return(params_for_texinfo_documents(call.conf))

CallGenerator ==
    /\ call.fn = "conf_py_texinfo_documents"
    /\ Return(conf_py_texinfo_documents(call.kw))

NextUnit == CallModify \/ CallBuilddir \/ CallParams \/ CallGenerator

SpecUnit == InitUnit /\ [][NextUnit]_vars

Returned(fn) == pc = "returned" /\ call.fn = fn

----------------------------------------------------------------------------
(* The projects the script is run against *)

Doc == <<"doc">>
Docs == <<"docs">>

\* dirs: the directories; mk, cf: where a Makefile and a conf.py exist
ProjectLayouts ==
    {[dirs |-> {Doc, join(Doc, <<"_build">>)},
      mk |-> {join(Doc, <<"Makefile">>)},
      cf |-> {join(Doc, <<"conf.py">>)}],
     [dirs |-> {Docs, join(Docs, <<"source">>), join(Docs, <<"build">>),
                join(Docs, <<"_build">>)},
      mk |-> {join(Docs, <<"Makefile">>)},
      cf |-> {join(Docs, <<"source", "conf.py">>)}],
     [dirs |-> {Doc, Docs, join(Doc, <<"source">>)},
      mk |-> {join(Doc, <<"Makefile">>), join(Docs, <<"Makefile">>)},
      cf |-> {join(Doc, <<"conf.py">>), join(Doc, <<"source", "conf.py">>),
              join(Docs, <<"conf.py">>)}],
     [dirs |-> {}, mk |-> {}, cf |-> {}],
     [dirs |-> {Doc}, mk |-> {}, cf |-> {join(Doc, <<"conf.py">>)}],
     [dirs |-> {Docs, join(Docs, <<"build">>)},
      mk |-> {join(Docs, <<"Makefile">>)}, cf |-> {}]}

MakefileTexts ==
    {Concat(ls) : ls \in {<<LPlain, LMarker, LVar>>,
                          <<LBuild, chomp(LMarker)>>,
                          <<LMarker>>,
                          <<LPlain, LVar>>,
                          <<LMarker, LMarker, LBuild>>}}

\* conf.py as the project has it, nothing appended yet: with master_doc,
\* with latex_documents only (an entry, or empty), with neither, and without
\* project
ConfScripts ==
    LET contents == <<"c", "o", "n", "t", "e", "n", "t", "s">>
        intro == <<<<"i", "n", "t", "r", "o">>, <<"x.tex">>>>
    IN  {[bindings |-> Chosen(b), blocks |-> <<>>] :
            b \in {[project |-> Some(Foo), master_doc |-> Some(contents),
                    latex_documents |-> Some(<<intro>>)],
                   [project |-> Some(Foo), master_doc |-> None,
                    latex_documents |-> Some(<<intro>>)],
                   [project |-> Some(Foo), master_doc |-> None,
                    latex_documents |-> Some(<<>>)],
                   [project |-> Some(Foo), master_doc |-> None,
                    latex_documents |-> None],
                   [project |-> None, master_doc |-> Some(contents),
                    latex_documents |-> Some(<<intro>>)]}}

\* The command line: the flags of main and the value each is given
FlagNames ==
    {"project_name", "startdocname", "targetname", "title", "author",
     "dir_entry", "description", "category", "toctree_only"}

FlagValue(k, t) ==
    CASE k = "project_name" -> Some(Bar)
      [] k = "startdocname" -> Some(repr(<<"i", "n", "t", "r", "o">>))
      [] k = "targetname" -> Some(<<"tgt">>)
      [] k = "title" -> Some(<<"A Title">>)
      [] k = "author" -> Some(<<<<"Alice">>, <<"Bob">>>>)
      [] k = "dir_entry" -> Some(<<"Dir">>)
      [] k = "description" -> Some(<<"About">>)
      [] k = "category" -> Some(<<"Misc">>)
      [] k = "toctree_only" -> Some(t)

\* vars(parser.parse_args(args)): every flag, None where it is not given
CommandLines ==
    {[k \in FlagNames |-> IF k \in given THEN FlagValue(k, t) ELSE None] :
        given \in {g \in SUBSET FlagNames : Cardinality(g) <= MaxFlags},
        t \in {0, 1}}

----------------------------------------------------------------------------
(* A run of the script *)

Init ==
    /\ \E layout \in ProjectLayouts, text \in MakefileTexts,
          script \in ConfScripts :
          /\ dirs = layout.dirs
          /\ mkfiles = [p \in layout.mk |-> text]
          /\ conffiles = [p \in layout.cf |-> script]
    /\ first_conffiles = conffiles
    /\ start_mkfiles = mkfiles /\ start_conffiles = conffiles
    /\ pc = "idle" /\ err = "None" /\ n_runs = 0 /\ n_appended = 0
    /\ additional_params = <<>>
    /\ makefile_path = None /\ makefile_orig_lines = <<>>
    /\ builddir = <<>> /\ makefile_lines = <<>>
    /\ conf_path = None /\ conf = <<>> /\ params = <<>>
    /\ conf_addition = <<>>
    /\ call = <<>> /\ ret = <<>>

\* main (lines 234-249): the command line is parsed and sphinx_add_texinfo
\* entered.  The script is run again with the command line of the first run.
Main ==
    /\ pc \in {"idle", "done", "aborted"}
    /\ n_runs < MaxRuns
    /\ \E ns \in (IF n_runs = 0 THEN CommandLines ELSE {additional_params}) :
          additional_params' = ns
    /\ pc' = "patch"
    /\ err' = "None"
    /\ n_runs' = n_runs + 1
    /\ start_mkfiles' = mkfiles
    /\ start_conffiles' = conffiles
    /\ makefile_path' = None /\ makefile_orig_lines' = <<>>
    /\ builddir' = <<>> /\ makefile_lines' = <<>>
    /\ conf_path' = None /\ conf' = <<>> /\ params' = <<>>
    /\ conf_addition' = <<>>
    /\ UNCHANGED <<dirs, mkfiles, conffiles, first_conffiles, n_appended,
                   call, ret>>

\* lines 216-220 as far as they get: the locals, and the exception if one
\* is raised
patched ==
    LET found == find_sphinx_makefile
        none == [exc |-> "None", makefile_path |-> None,
                 makefile_orig_lines |-> <<>>, builddir |-> <<>>,
                 makefile_lines |-> <<>>]
    IN  IF found.exc # "None" THEN [none EXCEPT !.exc = found.exc]
        ELSE IF found.val = None
        THEN [none EXCEPT !.exc = "TypeError:open(None)"]
        ELSE
          LET lines == readlines(mkfiles[found.val[1]])
              read == [none EXCEPT !.makefile_path = found.val,
                                   !.makefile_orig_lines = lines]
              b == get_makefile_builddir(found.val[1], lines)
              m == modify_makefile_lines(lines, b.val)
          IN  IF b.exc # "None" THEN [read EXCEPT !.exc = b.exc]
              ELSE IF m.exc # "None"
              THEN [read EXCEPT !.exc = m.exc, !.builddir = b.val]
              ELSE [read EXCEPT !.builddir = b.val, !.makefile_lines = m.val]

\* PatchMakefile writing the patched lines as soon as it has them
PatchMakefile_writes_at_once ==
    /\ pc = "patch"
    /\ LET r == patched
       IN  /\ makefile_path' = r.makefile_path
           /\ makefile_orig_lines' = r.makefile_orig_lines
           /\ builddir' = r.builddir
           /\ makefile_lines' = r.makefile_lines
           /\ err' = r.exc
           /\ pc' = IF r.exc = "None" THEN "derive" ELSE "aborted"
           /\ mkfiles' = IF r.exc = "None"
                         THEN [mkfiles EXCEPT ![r.makefile_path[1]] =
                                                  Concat(r.makefile_lines)]
                         ELSE mkfiles
    /\ UNCHANGED <<dirs, conffiles, n_runs, additional_params,
                   conf_path, conf, params, conf_addition, start_mkfiles,
                   start_conffiles, first_conffiles, n_appended, call, ret>>

\* lines 216-220
PatchMakefile ==
    /\ pc = "patch"
    /\ LET r == patched
       IN  /\ makefile_path' = r.makefile_path
           /\ makefile_orig_lines' = r.makefile_orig_lines
           /\ builddir' = r.builddir
           /\ makefile_lines' = r.makefile_lines
           /\ err' = r.exc
           /\ pc' = IF r.exc = "None" THEN "derive" ELSE "aborted"
    /\ UNCHANGED <<dirs, mkfiles, conffiles, n_runs, additional_params,
                   conf_path, conf, params, conf_addition, start_mkfiles,
                   start_conffiles, first_conffiles, n_appended, call, ret>>

\* lines 222-226 as far as they get
derived ==
    LET found == find_sphinx_conf
        none == [exc |-> "None", conf_path |-> None, conf |-> <<>>,
                 params |-> <<>>, conf_addition |-> <<>>]
    IN  IF found.exc # "None" THEN [none EXCEPT !.exc = found.exc]
        ELSE
          LET ns == read_sphinx_conf(found.val)
              read == [none EXCEPT !.conf_path = found.val, !.conf = ns.val]
              p == params_for_texinfo_documents(ns.val)
              merged == update(p.val, filter_dict(additional_params))
              block == conf_py_texinfo_documents(merged)
          IN  IF ns.exc # "None"
              THEN [none EXCEPT !.exc = ns.exc, !.conf_path = found.val]
              ELSE IF p.exc # "None" THEN [read EXCEPT !.exc = p.exc]
              ELSE IF block.exc # "None"
              THEN [read EXCEPT !.exc = block.exc, !.params = merged]
              ELSE [read EXCEPT !.params = merged,
                                !.conf_addition = block.val]

\* DeriveConf appending the block as soon as it has it
DeriveConf_appends_at_once ==
    /\ pc = "derive"
    /\ LET r == derived
       IN  /\ conf_path' = r.conf_path
           /\ conf' = r.conf
           /\ params' = r.params
           /\ conf_addition' = r.conf_addition
           /\ err' = r.exc
           /\ pc' = IF r.exc = "None" THEN "write_makefile" ELSE "aborted"
           /\ conffiles' = IF r.exc = "None"
                           THEN [conffiles EXCEPT
                                   ![r.conf_path[1]].blocks =
                                       Append(@, r.conf_addition)]
                           ELSE conffiles
    /\ UNCHANGED <<dirs, mkfiles, n_runs, additional_params,
                   makefile_path, makefile_orig_lines, builddir,
                   makefile_lines, start_mkfiles, start_conffiles,
                   first_conffiles, n_appended, call, ret>>

\* lines 222-226
DeriveConf ==
    /\ pc = "derive"
    /\ LET r == derived
       IN  /\ conf_path' = r.conf_path
           /\ conf' = r.conf
           /\ params' = r.params
           /\ conf_addition' = r.conf_addition
           /\ err' = r.exc
           /\ pc' = IF r.exc = "None" THEN "write_makefile" ELSE "aborted"
    /\ UNCHANGED <<dirs, mkfiles, conffiles, n_runs, additional_params,
                   makefile_path, makefile_orig_lines, builddir,
                   makefile_lines, start_mkfiles, start_conffiles,
                   first_conffiles, n_appended, call, ret>>

\* lines 228-229: open(makefile_path, 'w') either raises, which leaves the
\* file as it was, or the lines are written over the file
WriteMakefile ==
    /\ pc = "write_makefile"
    /\ \E opened \in BOOLEAN :
          IF opened
          THEN /\ mkfiles' = [mkfiles EXCEPT
                                ![makefile_path[1]] = Concat(makefile_lines)]
               /\ pc' = "write_conf"
               /\ err' = err
          ELSE /\ mkfiles' = mkfiles
               /\ pc' = "aborted"
               /\ err' = "IOError:Makefile"
    /\ UNCHANGED <<dirs, conffiles, n_runs, additional_params,
                   makefile_path, makefile_orig_lines, builddir,
                   makefile_lines, conf_path, conf, params, conf_addition,
                   start_mkfiles, start_conffiles, first_conffiles,
                   n_appended, call, ret>>

\* lines 230-231: open(conf_path, 'a') either raises or the block is
\* written after what the file holds
WriteConf ==
    /\ pc = "write_conf"
    /\ \E opened \in BOOLEAN :
          IF opened
          THEN /\ conffiles' = [conffiles EXCEPT
                                  ![conf_path[1]].blocks =
                                      Append(@, conf_addition)]
               /\ pc' = "done"
               /\ err' = err
               /\ n_appended' = n_appended + 1
          ELSE /\ conffiles' = conffiles
               /\ pc' = "aborted"
               /\ err' = "IOError:conf.py"
               /\ n_appended' = n_appended
    /\ UNCHANGED <<dirs, mkfiles, n_runs, additional_params,
                   makefile_path, makefile_orig_lines, builddir,
                   makefile_lines, conf_path, conf, params, conf_addition,
                   start_mkfiles, start_conffiles, first_conffiles,
                   call, ret>>

Next == Main \/ PatchMakefile \/ DeriveConf \/ WriteMakefile \/ WriteConf

Spec == Init /\ [][Next]_vars

WriteErrors == {"IOError:Makefile", "IOError:conf.py"}

----------------------------------------------------------------------------
(* Claims about the functions, under SpecUnit *)

\* the line holds the three marker substrings
HasAllMarkers(l) ==
    /\ Contains(l, "@echo")
    /\ Contains(l, "latex")
    /\ Contains(l, "to make LaTeX files,")

MarkerIndexes(lines) == {i \in DOMAIN lines : HasAllMarkers(lines[i])}

\* C1: for a line list with exactly one marker line, modify_makefile_lines
\* returns every original line, verbatim and in order, the help block as the
\* element right after the marker line and nowhere else, and as the last
\* element the targets template with every {builddir} replaced by the given
\* token.
C1_PatchedLines ==
    (Returned("modify_makefile_lines")
       /\ Cardinality(MarkerIndexes(call.lines)) = 1)
    => LET lines == call.lines
           out == ret.val
           m == CHOOSE i \in MarkerIndexes(lines) : TRUE
           last == out[Len(out)]
       IN  /\ ret.exc = "None"
           /\ Len(out) = Len(lines) + 2
           /\ \A i \in 1..m : out[i] = lines[i]
           /\ out[m + 1] = MAKEFILE_HELP_LINES
           /\ \A i \in (m + 1)..Len(lines) : out[i + 1] = lines[i]
           /\ \A i \in DOMAIN out : i # m + 1 => out[i] # MAKEFILE_HELP_LINES
           /\ Len(last) = Len(MAKEFILE_TARGETS_TEMPLATE)
           /\ \A j \in DOMAIN last :
                 last[j] = IF MAKEFILE_TARGETS_TEMPLATE[j] = "{builddir}"
                           THEN call.builddir
                           ELSE MAKEFILE_TARGETS_TEMPLATE[j]

\* a three-line list with the marker in the middle has been patched
C1_Witness ==
    /\ Returned("modify_makefile_lines")
    /\ call.lines = <<LPlain, LMarker, LHalf>>
    /\ call.builddir = "out"
    /\ ret.exc = "None"
    /\ Len(ret.val) = 5

HasVar(lines) == \E i \in DOMAIN lines : Contains(lines[i], "$(BUILDDIR)")
HasHidden(lines) == \E i \in DOMAIN lines : ReSearchWord("_build", lines[i])
HasBuild(lines) == \E i \in DOMAIN lines : ReSearchWord("build", lines[i])

\* C3 as stated: the three textual rules apply in strict order over the whole
\* line list: '$(BUILDDIR)' on any line, else the standalone word '_build' on
\* any line (also when another line holds the standalone word 'build'), else
\* the standalone word 'build' on any line.
C3_StrictRuleOrder ==
    Returned("get_makefile_builddir")
    => LET lines == call.lines
       IN  /\ HasVar(lines) => ret.val = "$(BUILDDIR)"
           /\ (~HasVar(lines) /\ HasHidden(lines)) => ret.val = "_build"
           /\ (~HasVar(lines) /\ ~HasHidden(lines) /\ HasBuild(lines))
                 => ret.val = "build"

\* C3 as amended: '$(BUILDDIR)' on any line wins; otherwise the first line,
\* in file order, that holds the standalone word '_build' or the standalone
\* word 'build' decides: '_build' if that line holds '_build', else 'build'.
C3_FirstLineDecides ==
    Returned("get_makefile_builddir")
    => LET lines == call.lines
           mentions == {i \in DOMAIN lines :
                           \/ ReSearchWord("_build", lines[i])
                           \/ ReSearchWord("build", lines[i])}
       IN  /\ HasVar(lines) => ret = [exc |-> "None", val |-> "$(BUILDDIR)"]
           /\ (~HasVar(lines) /\ mentions # {})
                 => LET k == CHOOSE i \in mentions :
                                 \A j \in mentions : i <= j
                    IN  ret = [exc |-> "None",
                               val |-> IF ReSearchWord("_build", lines[k])
                                       THEN "_build" ELSE "build"]

\* a line holding both words decided for '_build', after a line holding
\* neither as a standalone word
C3_Witness ==
    /\ Returned("get_makefile_builddir")
    /\ call.lines = <<LGlued, LBoth, LBuild>>
    /\ ret.val = "_build"

\* the argument k was given, and not as the empty string or list
Given(kw, k) == k \in DOMAIN kw /\ kw[k] # None /\ kw[k][1] # <<>>

\* C4: with no optional argument the block holds start document S, target
\* name lower-cased P, title 'P Documentation', author 'P Development Team',
\* directory entry P, description equal to the title, category 'Programming'
\* and toctree-only 1; each optional field is defaulted on its own, the
\* description from the title as it stands after the title's defaulting.
\* (An argument given as the empty string or list counts as not given, but
\* for the category, which is used as it is.)
C4_Defaults ==
    Returned("conf_py_texinfo_documents")
    => LET kw == call.kw
           P == kw.project_name[1]
           title == IF Given(kw, "title") THEN kw.title[1]
                    ELSE P \o <<" Documentation">>
           expected ==
             [p \in Placeholders |->
               CASE p = "{startdocname}" -> kw.startdocname[1]
                 [] p = "{targetname}" ->
                      IF Given(kw, "targetname") THEN kw.targetname[1]
                      ELSE lower(P)
                 [] p = "{title}" -> title
                 [] p = "{author}" ->
                      IF Given(kw, "authors")
                      THEN str_join("@*", kw.authors[1])
                      ELSE P \o <<" Development Team">>
                 [] p = "{dir_entry}" ->
                      IF Given(kw, "dir_entry") THEN kw.dir_entry[1] ELSE P
                 [] p = "{description}" ->
                      IF Given(kw, "description") THEN kw.description[1]
                      ELSE title
                 [] p = "{category}" ->
                      IF "category" \in DOMAIN kw THEN kw.category[1]
                      ELSE <<"Programming">>
                 [] p = "{toctree_only}" ->
                      IF "toctree_only" \in DOMAIN kw
                         /\ kw.toctree_only[1] = 0
                      THEN <<"0">> ELSE <<"1">>]
       IN  ret = [exc |-> "None", val |-> format_conf(expected)]

\* a block was generated from a title and no description
C4_Witness ==
    /\ Returned("conf_py_texinfo_documents")
    /\ DOMAIN call.kw = {"project_name", "startdocname", "title"}
    /\ call.kw.title = Some(<<"A Title">>)
    /\ call.kw.project_name = Some(Foo)
    /\ ret.exc = "None"
    /\ Contains(ret.val, "f") /\ Contains(ret.val, "A Title")

\* C5: the start document is the fixed string 'master_doc' (the setting's
\* name, not its value) when master_doc is bound; otherwise the quoted first
\* element of the first entry of latex_documents when that list is not
\* empty; otherwise, the list being empty, the bare identifier index.
C5_StartDocument ==
    (Returned("params_for_texinfo_documents")
       /\ "project" \in DOMAIN call.conf)
    => LET c == call.conf
       IN  /\ "master_doc" \in DOMAIN c
                 => /\ ret.exc = "None"
                    /\ ret.val.startdocname = Some(<<"master_doc">>)
           /\ ("master_doc" \notin DOMAIN c
                 /\ "latex_documents" \in DOMAIN c)
                 => LET docs == c["latex_documents"]
                    IN  /\ ret.exc = "None"
                        /\ (docs # <<>> /\ docs[1] # <<>>)
                              => ret.val.startdocname
                                   = Some(<<"'">> \o docs[1][1] \o <<"'">>)
                        /\ docs = <<>>
                              => ret.val.startdocname = Some(<<"index">>)

\* the parameters were derived from a conf.py that binds master_doc
C5_Witness ==
    /\ Returned("params_for_texinfo_documents")
    /\ "project" \in DOMAIN call.conf
    /\ "master_doc" \in DOMAIN call.conf
    /\ "latex_documents" \in DOMAIN call.conf
    /\ call.conf["latex_documents"] # <<>>
    /\ ret.exc = "None"

----------------------------------------------------------------------------
(* Claims about a run, under Spec *)

\* C2: a run that ends on anything but a failed write (no documentation
\* directory, no Makefile, no conf.py, a marker count other than one, a
\* missing configuration key) ends before either file is opened for
\* writing: the Makefiles and the conf.py files are as the run found them.
C2_AbortsBeforeWriting ==
    (pc = "aborted" /\ err \notin WriteErrors)
    => /\ mkfiles = start_mkfiles
       /\ conffiles = start_conffiles

\* a run that had its patched lines ready ended on the missing project key
C2_Witness ==
    /\ pc = "aborted"
    /\ err = "KeyError:project"
    /\ makefile_lines # <<>>
    /\ mkfiles = start_mkfiles

\* C6 as stated: the project name and the start document are required only
\* from either source, so a run ends on a missing configuration key only
\* when the flag for that parameter is not given either.
C6_EitherSourceSuffices ==
    pc = "aborted"
    => /\ err = "KeyError:project"
             => additional_params["project_name"] = None
       /\ err = "KeyError:latex_documents"
             => additional_params["startdocname"] = None

\* C7: once the overrides are merged, every parameter holds the override
\* where one is given (not None) and the value derived from conf.py
\* otherwise; a parameter with neither is not passed.
C7_OverridesMerged ==
    DOMAIN params # {}
    => LET d == params_for_texinfo_documents(conf).val
       IN  \A k \in FlagNames \cup DOMAIN d :
              IF k \in FlagNames /\ additional_params[k] # None
              THEN k \in DOMAIN params /\ params[k] = additional_params[k]
              ELSE IF k \in DOMAIN d
              THEN k \in DOMAIN params /\ params[k] = d[k]
              ELSE k \notin DOMAIN params

\* a run given --toctree-only 0 and no project name completed
C7_Witness ==
    /\ pc = "done"
    /\ additional_params["toctree_only"] = Some(0)
    /\ additional_params["project_name"] = None
    /\ params["toctree_only"] = Some(0)
    /\ params["project_name"] = Some(Foo)
    /\ Contains(conf_addition, "0")

\* C8 as stated: every flag reaches the generator under a name it accepts,
\* and a run given author flags completes with the names joined by '@*' in
\* the block.
C8_FlagsReachGenerator ==
    /\ err # "TypeError:unexpected keyword argument"
    /\ (pc = "done" /\ additional_params["author"] # None)
          => /\ Contains(conf_addition, "Alice")
             /\ Contains(conf_addition, "@*")
             /\ Contains(conf_addition, "Bob")

\* C9: the Makefile is written before conf.py is appended to: whenever a
\* conf.py differs from what the run found, the Makefile holds the patched
\* lines; and a run that ends on the failed write of conf.py leaves the
\* Makefile patched and conf.py as it was.
C9_MakefileWrittenFirst ==
    /\ conffiles # start_conffiles
          => /\ makefile_path # None
             /\ mkfiles[makefile_path[1]] = Concat(makefile_lines)
             /\ mkfiles # start_mkfiles
    /\ (pc = "aborted" /\ err = "IOError:conf.py")
          => /\ mkfiles[makefile_path[1]] = Concat(makefile_lines)
             /\ mkfiles # start_mkfiles
             /\ conffiles = start_conffiles

\* a run ended on the failed write of conf.py
C9_Witness ==
    /\ pc = "aborted"
    /\ err = "IOError:conf.py"
    /\ mkfiles # start_mkfiles
    /\ conffiles = start_conffiles

\* C10 as stated: run again on a project it has patched, the script does not
\* abort and appends a further block: after k completed runs conf.py is what
\* it was at first followed by k copies of the block.
C10_RerunAppendsAgain ==
    /\ (pc = "aborted" /\ n_appended >= 1) => err \in WriteErrors
    /\ pc = "done"
          => conffiles[conf_path[1]]
               = [bindings |-> first_conffiles[conf_path[1]].bindings,
                  blocks |-> [i \in 1..n_appended |-> conf_addition]]

============================================================================
